---- MODULE Spec2Model ----
(***************************************************************************)
(* Model of aict_tools/apply.py: the selection ("cut") engine.             *)
(*   - create_mask_h5py / create_mask_table : mask evaluation              *)
(*   - apply_cuts_h5py_chunked             : chunked filtered copy         *)
(*   - apply_cuts_cta_dl1                  : two-phase cascade filter      *)
(* Sequences are 1-based: element i+1 of a sequence models row i.          *)
(***************************************************************************)
EXTENDS Integers, Sequences, FiniteSets, TLC

\* ------------------------------------------------------------------ bounds
MaxRows == 3        \* rows per input table
MaxVal == 2         \* values of the selectable column x are 1..MaxVal
MaxChunk == 2       \* chunksize ranges over 1..MaxChunk
MaxGroups == 2      \* number of groups in a selection_config list

\* ------------------------------------------------------------- basic values
\* Python's None for the optional start / end arguments.
None == 0 - 1

NoErr == [kind |-> "none", name |-> ""]
Raise(kind, name) == [kind |-> kind, name |-> name]

Min(a, b) == IF a <= b THEN a ELSE b

\* int(np.ceil(n / c)) for n >= 0, c >= 1
Ceil(n, c) == (n + c - 1) \div c

\* x[start:end] of a sequence (0-based half-open range, end <= Len(x))
Slice(data, start, end) == [i \in 1..(end - start) |-> data[start + i]]

\* np.count_nonzero(mask)
RECURSIVE count_nonzero(_)
count_nonzero(mask) ==
    IF mask = <<>> THEN 0
    ELSE (IF Head(mask) THEN 1 ELSE 0) + count_nonzero(Tail(mask))

\* data[mask] : boolean-mask indexing, keeps the order of the kept elements
RECURSIVE Compress(_, _)
Compress(data, mask) ==
    IF data = <<>> THEN <<>>
    ELSE (IF Head(mask) THEN <<Head(data)>> ELSE <<>>)
             \o Compress(Tail(data), Tail(mask))

\* ---------------------------------------------------------------- OPERATORS
\* The OPERATORS table: spelling -> comparison function.
OPERATORS ==
    ("<" :> "lt") @@ ("lt" :> "lt") @@
    ("<=" :> "le") @@ ("le" :> "le") @@
    ("==" :> "eq") @@ ("eq" :> "eq") @@
    ("=" :> "eq") @@
    ("!=" :> "ne") @@ ("ne" :> "ne") @@
    (">" :> "gt") @@ ("gt" :> "gt") @@
    (">=" :> "ge") @@ ("ge" :> "ge")

\* the functions of the operator module
Compare(fn, a, b) ==
    CASE fn = "lt" -> a < b
      [] fn = "le" -> a <= b
      [] fn = "eq" -> a = b
      [] fn = "ne" -> a # b
      [] fn = "gt" -> a > b
      [] fn = "ge" -> a >= b

\* ---------------------------------------------------------- selection config
\* A criterion is one dict item  name: [operator, value].
Crit(n, o, v) == [name |-> n, operator |-> o, value |-> v]

\* A group is one dict of selection_config, as the sequence of its items.
\* A selection_config is either a list of groups or (legacy) one dict of
\* column_name -> [op, val], again as the sequence of its items.
NormaliseLegacy(sel) ==
    IF sel.legacy THEN [i \in 1..Len(sel.items) |-> <<sel.items[i]>>]
    ELSE sel.items

\* a combination that keeps a row when either operand does
logical_or(mask, selection) == [k \in 1..Len(mask) |-> mask[k] \/ selection[k]]

\* np.logical_and(mask, selection), element-wise
logical_and(mask, selection) == [k \in 1..Len(mask) |-> mask[k] /\ selection[k]]

\* OPERATORS[operator](column, value), element-wise over a rank-1 slice
apply_operator(operator, column, value) ==
    [k \in 1..Len(column) |-> Compare(OPERATORS[operator], column[k], value)]

\* start = start or 0
start_or_0(start) == IF start = None \/ start = 0 THEN 0 ELSE start

\* end = min(n_events, end) if end else n_events
end_or_n_events(n_events, end) ==
    IF end = None \/ end = 0 THEN n_events ELSE Min(n_events, end)

\* np.ones(n_selected, dtype=bool)
ones(n_selected) == [k \in 1..n_selected |-> TRUE]

\* ---------------------------------------------------------- create_mask_h5py
\* An h5py table (infile[key]) is a function: column name -> dataset, a
\* dataset being [ndim, dim2, data] with data the sequence of its rows.
\* The loop over selection_config.  The callee OPERATORS[operator] is
\* evaluated before its argument infile[key][name].  A criterion on a column
\* of rank other than 1 yields a selection that is not a rank-1 mask: either
\* the broadcast in np.logical_and raises, or the mask is 2-d and every
\* subsequent boolean indexing with it raises; it is modelled as raised here.
RECURSIVE mask_loop_h5py(_, _, _, _, _, _)
mask_loop_h5py(table, cfg, i, s, e, m) ==
    IF i > Len(cfg) THEN [err |-> NoErr, mask |-> m]
    ELSE LET c == cfg[i] IN
      IF Len(c) > 1 THEN [err |-> Raise("ValueError", "single entry"), mask |-> <<>>]
      ELSE IF Len(c) = 0 THEN [err |-> Raise("IndexError", "empty group"), mask |-> <<>>]
      ELSE LET name == c[1].name
               operator == c[1].operator
               value == c[1].value
           IN IF operator \notin DOMAIN OPERATORS
                THEN [err |-> Raise("KeyError", operator), mask |-> <<>>]
              ELSE IF name \notin DOMAIN table
                THEN [err |-> Raise("KeyError", name), mask |-> <<>>]
              ELSE IF table[name].ndim # 1
                THEN [err |-> Raise("ShapeError", name), mask |-> <<>>]
              ELSE mask_loop_h5py(table, cfg, i + 1, s, e,
                     logical_and(m, apply_operator(operator,
                                       Slice(table[name].data, s, e), value)))

create_mask_h5py(table, cfg, n, st, en) ==
    LET s == start_or_0(st)
        e == end_or_n_events(n, en)
        n_selected == e - s
    IN mask_loop_h5py(table, NormaliseLegacy(cfg), 1, s, e, ones(n_selected))

\* --------------------------------------------------------- create_mask_table
\* A PyTables table is [name, colnames, rows], a row being a function
\* column name -> value.  table.col(name)[start:end]:
col_slice(tbl, name, s, e) == [k \in 1..(e - s) |-> tbl.rows[s + k][name]]

RECURSIVE mask_loop_table(_, _, _, _, _, _)
mask_loop_table(tbl, cfg, i, s, e, m) ==
    IF i > Len(cfg) THEN [err |-> NoErr, mask |-> m]
    ELSE LET c == cfg[i] IN
      IF Len(c) > 1 THEN [err |-> Raise("ValueError", "single entry"), mask |-> <<>>]
      ELSE IF Len(c) = 0 THEN [err |-> Raise("IndexError", "empty group"), mask |-> <<>>]
      ELSE LET name == c[1].name
               operator == c[1].operator
               value == c[1].value
           IN IF name \notin tbl.colnames
                THEN [err |-> Raise("KeyError", name), mask |-> <<>>]
              ELSE IF operator \notin DOMAIN OPERATORS
                THEN [err |-> Raise("KeyError", operator), mask |-> <<>>]
              ELSE mask_loop_table(tbl, cfg, i + 1, s, e,
                     logical_and(m, apply_operator(operator,
                                       col_slice(tbl, name, s, e), value)))

create_mask_table(tbl, cfg, n, st, en) ==
    LET s == start_or_0(st)
        e == end_or_n_events(n, en)
        n_selected == e - s
    IN mask_loop_table(tbl, NormaliseLegacy(cfg), 1, s, e, ones(n_selected))

\* ------------------------------------------------------------- h5py storage
\* second entry of maxshape=(None, 2) for rank-2 output datasets
MaxShape2 == 2

EmptyGroup == [c \in {} |-> 0]

Dataset(ndim, dim2, data) == [ndim |-> ndim, dim2 |-> dim2, data |-> data]

\* infile[key].items(): h5py iterates the members of a group in name order
ColOrder == <<"img", "vol", "x">>

\* get_number_of_rows_in_table(input_path, key): the table's row count
\* (aict_tools.io is not part of the sources at hand; the spec's
\* "given a path, return total row count")
get_number_of_rows_in_table(table) ==
    IF DOMAIN table = {} THEN 0
    ELSE Len(table[CHOOSE c \in DOMAIN table : TRUE].data)

\* group.create_dataset(name, data=..., maxshape=...): HDF5 refuses a
\* dataspace whose current shape exceeds maxshape.
create_dataset(group, name, ndim, dim2, data) ==
    IF name \in DOMAIN group
      THEN [err |-> Raise("ValueError", name), group |-> group]
    ELSE IF ndim = 2 /\ dim2 > MaxShape2
      THEN [err |-> Raise("ValueError", name), group |-> group]
    ELSE [err |-> NoErr, group |-> (name :> Dataset(ndim, dim2, data)) @@ group]

\* group[name].resize(n, axis=0): new rows hold the fill value 0
resize(group, name, n) ==
    LET old == group[name]
    IN (name :> Dataset(old.ndim, old.dim2,
                  [k \in 1..n |-> IF k <= Len(old.data) THEN old.data[k] ELSE 0]))
       @@ group

\* an assignment that writes the rows at the head, group[name][0:n_new] = rows
assign_head(group, name, n_old, rows) ==
    LET old == group[name]
    IN (name :> Dataset(old.ndim, old.dim2,
                  [k \in 1..Len(old.data) |->
                      IF k <= Len(rows) THEN rows[k] ELSE old.data[k]]))
       @@ group

\* group[name][n_old:n_old + n_new] = rows
assign_tail(group, name, n_old, rows) ==
    LET old == group[name]
    IN (name :> Dataset(old.ndim, old.dim2,
                  [k \in 1..Len(old.data) |->
                      IF k > n_old /\ k <= n_old + Len(rows)
                      THEN rows[k - n_old] ELSE old.data[k]]))
       @@ group

\* body of "for name, dataset in infile[key].items()" for one column
write_column(group, name, dataset, ch, s, e, m) ==
    IF ch = 0 THEN
        IF dataset.ndim = 1
          THEN create_dataset(group, name, 1, 0, Compress(Slice(dataset.data, s, e), m))
        ELSE IF dataset.ndim = 2
          THEN create_dataset(group, name, 2, dataset.dim2,
                              Compress(Slice(dataset.data, s, e), m))
        ELSE [err |-> NoErr, group |-> group]       \* log.warning, column skipped
    ELSE
        IF name \notin DOMAIN group
          THEN [err |-> Raise("KeyError", name), group |-> group]   \* group[name].shape
        ELSE LET n_old == Len(group[name].data)
                 n_new == count_nonzero(m)
                 grown == resize(group, name, n_old + n_new)
             IN IF dataset.ndim = 1 \/ dataset.ndim = 2
                  THEN [err |-> NoErr,
                        group |-> assign_tail(grown, name, n_old,
                                     Compress(Slice(dataset.data, s, e), m))]
                ELSE [err |-> NoErr, group |-> grown]   \* log.warning

\* the loop "for name, dataset in infile[key].items()", stopping at the
\* first exception (the columns written before it stay written)
RECURSIVE column_loop(_, _, _, _, _, _, _)
column_loop(table, group, ch, s, e, m, k) ==
    IF k > Len(ColOrder) THEN [err |-> NoErr, group |-> group]
    ELSE IF ColOrder[k] \notin DOMAIN table
      THEN column_loop(table, group, ch, s, e, m, k + 1)
    ELSE LET r == write_column(group, ColOrder[k], table[ColOrder[k]], ch, s, e, m)
         IN IF r.err # NoErr THEN r
            ELSE column_loop(table, r.group, ch, s, e, m, k + 1)

\* ------------------------------------------------------------------- inputs
\* Groups of a selection_config.  Column x is rank 1, img is rank 2, z is in
\* no table, "~" is no key of OPERATORS, and the last group has two keys.
Groups ==
    { <<Crit("x", ">", 1)>>, <<Crit("x", "le", 1)>>, <<Crit("x", "==", 2)>>,
      <<Crit("z", ">", 1)>>, <<Crit("x", "~", 1)>>, <<Crit("img", ">", 0)>>,
      <<Crit("x", "ge", 1), Crit("img", "<", 2)>> }

RECURSIVE SeqsUpTo(_, _)
SeqsUpTo(S, n) ==
    IF n = 0 THEN {<<>>}
    ELSE LET shorter == SeqsUpTo(S, n - 1)
         IN shorter \cup {Append(q, x) : q \in shorter, x \in S}

\* list form, and the legacy dict form (a dict has the shape of a group)
Selections ==
    {[legacy |-> FALSE, items |-> q] : q \in SeqsUpTo(Groups, MaxGroups)}
    \cup {[legacy |-> TRUE, items |-> g] : g \in Groups \cup {<<>>}}

\* An input table: x with the given values; img (rank 2, second dimension
\* d) when d > 0; vol (rank 3) when hasVol.  Rows of img and vol are tagged
\* by their row number.
MkTable(xs, d, hasVol) ==
    [c \in {"x"} \cup (IF d > 0 THEN {"img"} ELSE {}) \cup (IF hasVol THEN {"vol"} ELSE {})
       |-> CASE c = "x" -> Dataset(1, 0, xs)
             [] c = "img" -> Dataset(2, d, [i \in 1..Len(xs) |-> 10 + i])
             [] c = "vol" -> Dataset(3, 0, [i \in 1..Len(xs) |-> 20 + i])]

XSeqs == SeqsUpTo(1..MaxVal, MaxRows)

H5Tables == {MkTable(xs, d, v) : xs \in XSeqs, d \in 0..(MaxShape2 + 1), v \in BOOLEAN}

\* ---------------------------------------------------------------- variables
VARIABLES
    pc,                 \* position in the running function
    selection_config,   \* the selection argument
    err,                \* the exception that ended the call, or NoErr
    mask,               \* the mask computed last
    start, end,         \* the row range evaluated last
    infile,             \* infile[key] of apply_cuts_h5py_chunked
    chunksize, n_events, n_chunks, chunk,
    outfile,            \* [created, group]: the output file and its group
    pass,               \* which call this is: "first", "rerun", "second"
    prev,               \* outcome of the first call, once it has ended
    in_,                \* the input store of apply_cuts_cta_dl1: its nodes
    out_,               \* [opened, tables]: the output store
    remaining_showers,  \* set of (obs_id, event_id) of the rows that passed
    n_rows_before, n_rows_after,
    t,                  \* position in the loop over the parameter tables
    node,               \* position in the loop over in_.walk_nodes()
    row,                \* position in the loop over the rows of a table
    result              \* the returned (n_rows_before, n_rows_after)

h5vars == <<infile, chunksize, n_events, n_chunks, chunk, outfile, pass, prev>>
ctavars == <<in_, out_, remaining_showers, n_rows_before, n_rows_after, t, node, row, result>>
vars == <<pc, selection_config, err, mask, start, end, h5vars, ctavars>>

NoStore == [opened |-> FALSE, tables |-> EmptyGroup]
NoResult == <<None, None>>
CtaIdle ==
    /\ in_ = <<>>
    /\ out_ = NoStore
    /\ remaining_showers = {}
    /\ n_rows_before = 0
    /\ n_rows_after = 0
    /\ t = 0
    /\ node = 0
    /\ row = 0
    /\ result = NoResult

NoFile == [created |-> FALSE, group |-> EmptyGroup]
NoPrev == [set |-> FALSE, ok |-> FALSE, group |-> EmptyGroup]

\* ------------------------------------------------ apply_cuts_h5py_chunked
H5Init ==
    /\ pc = "start"
    /\ selection_config \in Selections
    /\ err = NoErr
    /\ mask = <<>>
    /\ start = 0
    /\ end = 0
    /\ infile \in H5Tables
    /\ chunksize \in 1..MaxChunk
    /\ n_events = 0
    /\ n_chunks = 0
    /\ chunk = 0
    /\ outfile = NoFile
    /\ pass = "first"
    /\ prev = NoPrev
    /\ CtaIdle

\* n_events, n_chunks; h5py.File(output_path, 'w'); outfile.create_group(key)
H5Open ==
    /\ pc = "start"
    /\ n_events' = get_number_of_rows_in_table(infile)
    /\ n_chunks' = Ceil(n_events', chunksize)
    /\ outfile' = [created |-> TRUE, group |-> EmptyGroup]
    /\ chunk' = 0
    /\ pc' = "loop"
    /\ UNCHANGED <<selection_config, err, mask, start, end, infile, chunksize, pass, prev>>
    /\ UNCHANGED ctavars

\* one iteration of "for chunk in range(n_chunks)"
H5Chunk ==
    /\ pc = "loop"
    /\ chunk < n_chunks
    /\ LET s == chunk * chunksize
           e == Min(n_events, (chunk + 1) * chunksize)
           m == create_mask_h5py(infile, selection_config, n_events, s, e)
           w == column_loop(infile, outfile.group, chunk, s, e, m.mask, 1)
       IN /\ start' = s
          /\ end' = e
          /\ IF m.err # NoErr
               THEN /\ err' = m.err
                    /\ pc' = "failed"
                    /\ UNCHANGED <<mask, outfile, chunk>>
             ELSE /\ mask' = m.mask
                  /\ outfile' = [outfile EXCEPT !.group = w.group]
                  /\ IF w.err # NoErr
                       THEN /\ err' = w.err
                            /\ pc' = "failed"
                            /\ UNCHANGED chunk
                     ELSE /\ chunk' = chunk + 1
                          /\ UNCHANGED <<err, pc>>
    /\ UNCHANGED <<selection_config, infile, chunksize, n_events, n_chunks, pass, prev>>
    /\ UNCHANGED ctavars

\* the loop is exhausted, both files are closed
H5Close ==
    /\ pc = "loop"
    /\ chunk = n_chunks
    /\ pc' = "done"
    /\ UNCHANGED <<selection_config, err, mask, start, end, h5vars>>
    /\ UNCHANGED ctavars

H5Ended == pc \in {"done", "failed"}
H5Outcome == [set |-> TRUE, ok |-> pc = "done",
              group |-> IF pc = "done" THEN outfile.group ELSE EmptyGroup]

\* the caller runs the function again on the same input and selection with
\* another chunksize and a fresh output path
H5Rerun ==
    /\ H5Ended
    /\ pass = "first"
    /\ \E c \in (1..MaxChunk) \ {chunksize} : chunksize' = c
    /\ prev' = H5Outcome
    /\ pass' = "rerun"
    /\ pc' = "start"
    /\ err' = NoErr
    /\ mask' = <<>>
    /\ start' = 0
    /\ end' = 0
    /\ outfile' = NoFile
    /\ chunk' = 0
    /\ n_events' = 0
    /\ n_chunks' = 0
    /\ UNCHANGED <<selection_config, infile>>
    /\ UNCHANGED ctavars

\* the caller runs the function on the output of a successful first call,
\* with the same selection and a fresh output path
H5SecondPass ==
    /\ pc = "done"
    /\ pass = "first"
    /\ infile' = outfile.group
    /\ prev' = H5Outcome
    /\ pass' = "second"
    /\ pc' = "start"
    /\ err' = NoErr
    /\ mask' = <<>>
    /\ start' = 0
    /\ end' = 0
    /\ outfile' = NoFile
    /\ chunk' = 0
    /\ n_events' = 0
    /\ n_chunks' = 0
    /\ UNCHANGED <<selection_config, chunksize>>
    /\ UNCHANGED ctavars

H5Next == H5Open \/ H5Chunk \/ H5Close \/ H5Rerun \/ H5SecondPass

SpecH5 == H5Init /\ [][H5Next]_vars

\* ------------------------------------------------ what the claims speak of
\* A selection is well-formed for a table: every group has one key, every
\* operator is a key of OPERATORS, every column exists and is rank 1.
WellFormedH5(table, sel) ==
    LET cfg == NormaliseLegacy(sel)
    IN \A i \in 1..Len(cfg) :
          /\ Len(cfg[i]) = 1
          /\ cfg[i][1].operator \in DOMAIN OPERATORS
          /\ cfg[i][1].name \in DOMAIN table
          /\ table[cfg[i][1].name].ndim = 1

\* all items of a selection, whatever its form
ItemsOf(sel) ==
    LET cfg == NormaliseLegacy(sel)
    IN UNION {{cfg[i][j] : j \in 1..Len(cfg[i])} : i \in 1..Len(cfg)}

\* a configuration error: a group with more than one key, or an operator
\* outside the recognised set
ConfigError(sel) ==
    LET cfg == NormaliseLegacy(sel)
    IN \E i \in 1..Len(cfg) :
          \/ Len(cfg[i]) > 1
          \/ \E j \in 1..Len(cfg[i]) : cfg[i][j].operator \notin DOMAIN OPERATORS

\* row r (1-based) of the table satisfies every criterion
RowPassesH5(table, sel, r) ==
    LET cfg == NormaliseLegacy(sel)
    IN \A i \in 1..Len(cfg) :
          Compare(OPERATORS[cfg[i][1].operator],
                  table[cfg[i][1].name].data[r], cfg[i][1].value)

\* the rows of column c that satisfy the selection, in their original order
PassingRowsH5(table, sel, c) ==
    Compress(table[c].data,
             [r \in 1..Len(table[c].data) |-> RowPassesH5(table, sel, r)])

SupportedCols(table) == {c \in DOMAIN table : table[c].ndim \in {1, 2}}

\* no rank-2 column is wider than the output's maxshape allows
FitsMaxShape(table) ==
    \A c \in DOMAIN table : table[c].ndim = 2 => table[c].dim2 <= MaxShape2

\* C1: two calls on the same input and selection with chunk sizes c1 and c2
\* have the same outcome: both succeed with identical output columns, or
\* both fail.
ChunksizeInvariance ==
    (pass = "rerun" /\ H5Ended) => H5Outcome = prev

\* C4: with a malformed group or an unknown operator the call fails, and at
\* the moment of failure no output file or group has been created.
ConfigErrorBeforeOutput ==
    (H5Ended /\ ConfigError(selection_config))
        => (pc = "failed" /\ ~outfile.created)

\* C5: with a column of rank other than 1 or 2 next to supported columns
\* the call succeeds for one or many chunks, the output omits that column
\* and every other column holds exactly the passing rows.
UnsupportedRankIsNonFatal ==
    ( /\ H5Ended
      /\ n_chunks >= 1
      /\ SupportedCols(infile) # DOMAIN infile
      /\ WellFormedH5(infile, selection_config)
      /\ FitsMaxShape(infile) )
    => /\ pc = "done"
       /\ DOMAIN outfile.group = SupportedCols(infile)
       /\ \A c \in SupportedCols(infile) :
             outfile.group[c].data = PassingRowsH5(infile, selection_config, c)

\* C6: after a successful call the output table has the same supported-rank
\* column names, each with the rank of its input column.
SchemaPreserved ==
    pc = "done" =>
       /\ DOMAIN outfile.group = SupportedCols(infile)
       /\ \A c \in SupportedCols(infile) : outfile.group[c].ndim = infile[c].ndim

\* C7: a selection with a criterion on a column the table lacks never
\* completes successfully; when that criterion is the selection's only
\* defect the error names the column.
MissingCols(table, sel) == {it.name : it \in ItemsOf(sel)} \ DOMAIN table
OnlyDefectMissing(table, sel) ==
    /\ ~ConfigError(sel)
    /\ \A it \in ItemsOf(sel) : it.name \in DOMAIN table => table[it.name].ndim = 1
MissingColumnFailsLoudly ==
    (H5Ended /\ MissingCols(infile, selection_config) # {})
    => /\ pc = "failed"
       /\ OnlyDefectMissing(infile, selection_config)
             => (err.kind = "KeyError" /\ err.name \in MissingCols(infile, selection_config))

\* C9: a second call on the output of a successful first call, with the
\* same well-formed selection, writes an output equal to its input.
FilterIdempotent ==
    (pass = "second" /\ H5Ended /\ WellFormedH5(infile, selection_config))
    => (pc = "done" /\ outfile.group = infile)

\* ======================================================= apply_cuts_cta_dl1
MaxTableRows == 2   \* rows of the first parameter table

\* the group whose tables are the parameter tables
ParamKey == "/dl1/event/telescope/parameters"

TableNode(parent, name, colnames, rows) ==
    [kind |-> "Table", parent |-> parent, name |-> name,
     colnames |-> colnames, rows |-> rows]
GroupNode(parent, name) ==
    [kind |-> "Group", parent |-> parent, name |-> name,
     colnames |-> {}, rows |-> <<>>]

\* "for table in in_.root.dl1.event.telescope.parameters": the positions in
\* the store of the children of the parameter group, in order
RECURSIVE ParamNodes(_, _)
ParamNodes(store, i) ==
    IF i > Len(store) THEN <<>>
    ELSE (IF store[i].parent = ParamKey THEN <<i>> ELSE <<>>)
            \o ParamNodes(store, i + 1)

\* out_.create_table(where, name, description, createparents=True)
create_table(store, parent, name, description) ==
    IF name \in DOMAIN store.tables
      THEN [err |-> Raise("NodeError", name), store |-> store]
    ELSE [err |-> NoErr,
          store |-> [store EXCEPT !.tables =
                       (name :> [parent |-> parent, colnames |-> description, rows |-> <<>>])
                       @@ store.tables]]

\* new_table.append([row[:]])
append_row(store, name, r) ==
    [store EXCEPT !.tables[name].rows = Append(@, r)]

\* the key tuple built in the wrong column order
add_shower_swapped(showers, r) == showers \cup {<<r["event_id"], r["obs_id"]>>}

\* remaining_showers.add((row['obs_id'], row['event_id']))
add_shower(showers, r) == showers \cup {<<r["obs_id"], r["event_id"]>>}

\* a row count that misses the last row
len_short(tbl) == IF Len(tbl.rows) > 0 THEN Len(tbl.rows) - 1 ELSE 0

\* len(table)
len(tbl) == Len(tbl.rows)

\* length of zip(table.iterrows(), mask)
ZipLen(tbl, m) == Min(Len(tbl.rows), Len(m))

\* row['obs_id'], row['event_id']: the first column the row lacks, or ""
MissingKeyCol(tbl) ==
    IF "obs_id" \notin tbl.colnames THEN "obs_id"
    ELSE IF "event_id" \notin tbl.colnames THEN "event_id"
    ELSE ""

\* ------------------------------------------------------------ cascade inputs
ParamRow(o, e, x) == [obs_id |-> o, event_id |-> e, x |-> x]
ParamRows == {ParamRow(1, 1, 1), ParamRow(1, 1, 2), ParamRow(1, 2, 2), ParamRow(2, 1, 1)}
ParamCols == {"obs_id", "event_id", "x"}

ImageRow(o, e, tag) == [obs_id |-> o, event_id |-> e, image |-> tag]
ImageRows == <<ImageRow(1, 1, 31), ImageRow(1, 2, 32), ImageRow(2, 1, 33),
               ImageRow(2, 2, 34), ImageRow(1, 1, 35)>>

\* one more table: with obs_id only, with event_id only, or with no key column
ExtraTables ==
    { <<>>,
      <<TableNode("/configuration", "observation", {"obs_id", "livetime"},
                  <<[obs_id |-> 1, livetime |-> 41], [obs_id |-> 3, livetime |-> 42]>>)>>,
      <<TableNode("/dl1/monitoring", "trigger", {"event_id", "time"},
                  <<[event_id |-> 1, time |-> 51]>>)>>,
      <<TableNode("/configuration", "telescope", {"tel_id"},
                  <<[tel_id |-> 61], [tel_id |-> 62]>>)>> }

\* the nodes of a store in the order of walk_nodes()
CtaStores ==
    { <<GroupNode("/", "dl1")>> \o extra \o
      << TableNode("/dl1/event/telescope/images", "img_001",
                   {"obs_id", "event_id", "image"}, ImageRows),
         TableNode(ParamKey, "tel_001", ParamCols, r1),
         TableNode(ParamKey, "tel_002", ParamCols, r2) >>
      : extra \in ExtraTables,
        r1 \in SeqsUpTo(ParamRows, MaxTableRows),
        r2 \in SeqsUpTo(ParamRows, 1) }

CtaSelections ==
    {[legacy |-> FALSE, items |-> q] : q \in SeqsUpTo(Groups, 1)}
    \cup {[legacy |-> FALSE, items |-> <<<<Crit("x", ">=", 1)>>, <<Crit("x", "lt", 2)>>>>],
          [legacy |-> FALSE, items |-> <<<<Crit("x", "!=", 1)>>, <<Crit("z", "=", 1)>>>>],
          [legacy |-> TRUE, items |-> <<Crit("x", "gt", 1), Crit("event_id", "ne", 2)>>],
          [legacy |-> TRUE, items |-> <<>>]}

H5Idle ==
    /\ infile = EmptyGroup
    /\ chunksize = 1
    /\ n_events = 0
    /\ n_chunks = 0
    /\ chunk = 0
    /\ outfile = NoFile
    /\ pass = "first"
    /\ prev = NoPrev

CtaInit ==
    /\ pc = "start"
    /\ selection_config \in CtaSelections
    /\ err = NoErr
    /\ mask = <<>>
    /\ start = 0
    /\ end = 0
    /\ H5Idle
    /\ in_ \in CtaStores
    /\ out_ = NoStore
    /\ remaining_showers = {}
    /\ n_rows_before = 0
    /\ n_rows_after = 0
    /\ t = 0
    /\ node = 0
    /\ row = 0
    /\ result = NoResult

ctafixed == <<selection_config, start, end, h5vars, in_>>

\* n_rows_before = 0; n_rows_after = 0; both files are opened;
\* remaining_showers = set()
CtaOpen ==
    /\ pc = "start"
    /\ out_' = [opened |-> TRUE, tables |-> EmptyGroup]
    /\ remaining_showers' = {}
    /\ n_rows_before' = 0
    /\ n_rows_after' = 0
    /\ t' = 1
    /\ pc' = "phase1"
    /\ UNCHANGED <<ctafixed, err, mask, node, row, result>>

\* head of the loop over the parameter tables: create_table, create_mask_table
P1Table ==
    /\ pc = "phase1"
    /\ t <= Len(ParamNodes(in_, 1))
    /\ LET table == in_[ParamNodes(in_, 1)[t]]
           c == create_table(out_, ParamKey, table.name, table.colnames)
           m == create_mask_table(table, selection_config, len(table), None, None)
       IN IF c.err # NoErr
            THEN /\ err' = c.err
                 /\ pc' = "failed"
                 /\ UNCHANGED <<out_, mask, row>>
          ELSE /\ out_' = c.store
               /\ IF m.err # NoErr
                    THEN /\ err' = m.err
                         /\ pc' = "failed"
                         /\ UNCHANGED <<mask, row>>
                  ELSE /\ mask' = m.mask
                       /\ row' = 1
                       /\ pc' = "p1rows"
                       /\ UNCHANGED err
    /\ UNCHANGED <<ctafixed, remaining_showers, n_rows_before, n_rows_after, t, node, result>>

\* one iteration of "for row, match in zip(table.iterrows(), mask)"
P1Row ==
    /\ pc = "p1rows"
    /\ LET table == in_[ParamNodes(in_, 1)[t]] IN
       /\ row <= ZipLen(table, mask)
       /\ n_rows_before' = n_rows_before + 1
       /\ IF mask[row]
            THEN IF MissingKeyCol(table) # ""
                   THEN /\ err' = Raise("KeyError", MissingKeyCol(table))
                        /\ pc' = "failed"
                        /\ UNCHANGED <<remaining_showers, out_, n_rows_after, row>>
                 ELSE /\ remaining_showers' = add_shower(remaining_showers, table.rows[row])
                      /\ out_' = append_row(out_, table.name, table.rows[row])
                      /\ n_rows_after' = n_rows_after + 1
                      /\ row' = row + 1
                      /\ UNCHANGED <<err, pc>>
          ELSE /\ row' = row + 1
               /\ UNCHANGED <<remaining_showers, out_, n_rows_after, err, pc>>
    /\ UNCHANGED <<ctafixed, mask, t, node, result>>

\* the rows of the parameter table are exhausted: next parameter table
P1EndTable ==
    /\ pc = "p1rows"
    /\ row > ZipLen(in_[ParamNodes(in_, 1)[t]], mask)
    /\ t' = t + 1
    /\ pc' = "phase1"
    /\ UNCHANGED <<ctafixed, err, mask, out_, remaining_showers,
                   n_rows_before, n_rows_after, node, row, result>>

\* the parameter tables are exhausted: "for table in in_.walk_nodes()" starts
P1Done ==
    /\ pc = "phase1"
    /\ t > Len(ParamNodes(in_, 1))
    /\ node' = 1
    /\ pc' = "phase2"
    /\ UNCHANGED <<ctafixed, err, mask, out_, remaining_showers,
                   n_rows_before, n_rows_after, t, row, result>>

\* the two "continue" of the walk: not a table, or a parameter table
P2Skip ==
    /\ pc = "phase2"
    /\ node <= Len(in_)
    /\ in_[node].kind # "Table" \/ in_[node].parent = ParamKey
    /\ node' = node + 1
    /\ UNCHANGED <<ctafixed, pc, err, mask, out_, remaining_showers,
                   n_rows_before, n_rows_after, t, row, result>>

\* a table to copy: create_table
P2Table ==
    /\ pc = "phase2"
    /\ node <= Len(in_)
    /\ in_[node].kind = "Table" /\ in_[node].parent # ParamKey
    /\ LET table == in_[node]
           c == create_table(out_, table.parent, table.name, table.colnames)
       IN IF c.err # NoErr
            THEN /\ err' = c.err
                 /\ pc' = "failed"
                 /\ UNCHANGED <<out_, row>>
          ELSE /\ out_' = c.store
               /\ row' = 1
               /\ pc' = "p2rows"
               /\ UNCHANGED err
    /\ UNCHANGED <<ctafixed, mask, remaining_showers, n_rows_before, n_rows_after,
                   t, node, result>>

\* one iteration of "for row in table.iterrows()"
P2Row ==
    /\ pc = "p2rows"
    /\ LET table == in_[node] IN
       /\ row <= Len(table.rows)
       /\ IF "event_id" \in table.colnames /\ "obs_id" \notin table.colnames
            THEN /\ err' = Raise("KeyError", "obs_id")
                 /\ pc' = "failed"
                 /\ UNCHANGED <<out_, row>>
          ELSE /\ out_' =
                    IF /\ "event_id" \in table.colnames
                       /\ <<table.rows[row]["obs_id"], table.rows[row]["event_id"]>>
                             \notin remaining_showers
                    THEN out_
                    ELSE append_row(out_, table.name, table.rows[row])
               /\ row' = row + 1
               /\ UNCHANGED <<err, pc>>
    /\ UNCHANGED <<ctafixed, mask, remaining_showers, n_rows_before, n_rows_after,
                   t, node, result>>

\* the rows of the table are exhausted: next node of the walk
P2EndTable ==
    /\ pc = "p2rows"
    /\ row > Len(in_[node].rows)
    /\ node' = node + 1
    /\ pc' = "phase2"
    /\ UNCHANGED <<ctafixed, err, mask, out_, remaining_showers,
                   n_rows_before, n_rows_after, t, row, result>>

\* return n_rows_before, n_rows_after
CtaReturn ==
    /\ pc = "phase2"
    /\ node > Len(in_)
    /\ result' = <<n_rows_before, n_rows_after>>
    /\ pc' = "done"
    /\ UNCHANGED <<ctafixed, err, mask, out_, remaining_showers,
                   n_rows_before, n_rows_after, t, node, row>>

CtaNext ==
    \/ CtaOpen \/ P1Table \/ P1Row \/ P1EndTable \/ P1Done
    \/ P2Skip \/ P2Table \/ P2Row \/ P2EndTable \/ CtaReturn

SpecCta == CtaInit /\ [][CtaNext]_vars

\* ------------------------------------------- what the cascade claims speak of
CtaEnded == pc \in {"done", "failed"}
InPhase2 == pc \in {"phase2", "p2rows", "done"}

RECURSIVE SumSeq(_)
SumSeq(q) == IF q = <<>> THEN 0 ELSE Head(q) + SumSeq(Tail(q))

ParamTables == [k \in 1..Len(ParamNodes(in_, 1)) |-> in_[ParamNodes(in_, 1)[k]]]
OtherTables == {i \in 1..Len(in_) : in_[i].kind = "Table" /\ in_[i].parent # ParamKey}

WellFormedTable(tbl, sel) ==
    LET cfg == NormaliseLegacy(sel)
    IN \A i \in 1..Len(cfg) :
          /\ Len(cfg[i]) = 1
          /\ cfg[i][1].operator \in DOMAIN OPERATORS
          /\ cfg[i][1].name \in tbl.colnames

\* row r (1-based) of the table satisfies every criterion
RowPassesTable(tbl, sel, r) ==
    LET cfg == NormaliseLegacy(sel)
    IN \A i \in 1..Len(cfg) :
          Compare(OPERATORS[cfg[i][1].operator],
                  tbl.rows[r][cfg[i][1].name], cfg[i][1].value)

PassingRowNumbers(tbl, sel) == {r \in 1..Len(tbl.rows) : RowPassesTable(tbl, sel, r)}

\* the keys of the parameter-table rows that satisfy the selection
SurvivorKeys ==
    UNION { {<<ParamTables[k].rows[r]["obs_id"], ParamTables[k].rows[r]["event_id"]>>
                : r \in PassingRowNumbers(ParamTables[k], selection_config)}
            : k \in 1..Len(ParamTables) }

RECURSIVE KeepByKey(_, _)
KeepByKey(rows, keys) ==
    IF rows = <<>> THEN <<>>
    ELSE (IF <<Head(rows)["obs_id"], Head(rows)["event_id"]>> \in keys
            THEN <<Head(rows)>> ELSE <<>>) \o KeepByKey(Tail(rows), keys)

\* C3: with a selection the parameter tables accept, the call does not fail;
\* a dependent table with both key columns keeps exactly the rows whose key
\* is a survivor, any other dependent table (one key column or none) is
\* copied with all its rows.
CascadeCorrect ==
    (CtaEnded /\ \A k \in 1..Len(ParamTables) :
                     WellFormedTable(ParamTables[k], selection_config))
    => /\ pc = "done"
       /\ \A i \in OtherTables :
             /\ in_[i].name \in DOMAIN out_.tables
             /\ out_.tables[in_[i].name].rows =
                  IF {"obs_id", "event_id"} \subseteq in_[i].colnames
                  THEN KeepByKey(in_[i].rows, SurvivorKeys)
                  ELSE in_[i].rows

\* C8: the returned pair is (rows of all parameter tables, rows of them that
\* satisfy the selection); the second is the number of rows written to the
\* output parameter tables and never exceeds the first.
ReturnedCounts ==
    pc = "done" =>
      /\ result[1] = SumSeq([k \in 1..Len(ParamTables) |-> Len(ParamTables[k].rows)])
      /\ result[2] = SumSeq([k \in 1..Len(ParamTables) |->
                         Cardinality(PassingRowNumbers(ParamTables[k], selection_config))])
      /\ result[2] = SumSeq([k \in 1..Len(ParamTables) |->
                         Len(out_.tables[ParamTables[k].name].rows)])
      /\ result[2] <= result[1]
ReturnedCountsWitness ==
    /\ pc = "done"
    /\ result[2] >= 1
    /\ result[2] < result[1]
    /\ Len(ParamTables[2].rows) > 0
    /\ \E i \in OtherTables : Len(out_.tables[in_[i].name].rows) > 0

\* C10: while a parameter table is still to be processed no dependent table
\* has been reached or written; once the walk over the other tables has
\* started every parameter table has been processed and the survivor key set
\* is exactly the keys of the passing parameter rows, and it never changes
\* from then on.
BarrierState ==
    /\ pc \in {"start", "phase1", "p1rows"} =>
          /\ node = 0
          /\ \A i \in OtherTables : in_[i].name \notin DOMAIN out_.tables
    /\ InPhase2 =>
          /\ t > Len(ParamTables)
          /\ \A k \in 1..Len(ParamTables) : ParamTables[k].name \in DOMAIN out_.tables
          /\ remaining_showers = SurvivorKeys
PhaseBarrier ==
    /\ []BarrierState
    /\ [][(InPhase2 \/ InPhase2') => remaining_showers' = remaining_showers]_vars
PhaseBarrierWitness ==
    /\ pc = "p2rows"
    /\ row > 1
    /\ remaining_showers # {}
    /\ \E k \in 1..Len(ParamTables) :
          Cardinality(PassingRowNumbers(ParamTables[k], selection_config))
             < Len(ParamTables[k].rows)

\* ================================================== the mask evaluators alone
MaskVars == <<selection_config, start, end, h5vars, ctavars>>

MaskInit ==
    /\ pc = "start"
    /\ selection_config \in Selections
    /\ err = NoErr
    /\ mask = <<>>
    /\ \E xs \in XSeqs, d \in {0, MaxShape2} :
          /\ infile = MkTable(xs, d, FALSE)
          /\ in_ = <<TableNode("/", "events", {"x"}, [i \in 1..Len(xs) |-> [x |-> xs[i]]])>>
          /\ n_events = Len(xs)
    /\ start \in 0..(n_events - 1)
    /\ end \in (start + 1)..n_events
    /\ chunksize = 1
    /\ n_chunks = 0
    /\ chunk = 0
    /\ outfile = NoFile
    /\ pass = "first"
    /\ prev = NoPrev
    /\ out_ = NoStore
    /\ remaining_showers = {}
    /\ n_rows_before = 0
    /\ n_rows_after = 0
    /\ t = 0
    /\ node = 0
    /\ row = 0
    /\ result = NoResult

\* mask = create_mask_h5py(infile, selection_config, n_events, start=start, end=end)
CallCreateMaskH5py ==
    /\ pc = "start"
    /\ LET m == create_mask_h5py(infile, selection_config, n_events, start, end)
       IN /\ mask' = m.mask
          /\ err' = m.err
    /\ pc' = "h5py"
    /\ UNCHANGED MaskVars

\* mask = create_mask_table(table, selection_config, n_events, start=start, end=end)
CallCreateMaskTable ==
    /\ pc = "start"
    /\ LET m == create_mask_table(in_[1], selection_config, n_events, start, end)
       IN /\ mask' = m.mask
          /\ err' = m.err
    /\ pc' = "table"
    /\ UNCHANGED MaskVars

MaskNext == CallCreateMaskH5py \/ CallCreateMaskTable

SpecMask == MaskInit /\ [][MaskNext]_vars

\* C2: for a row range [start, end) and a well-formed selection the returned
\* mask has length end - start, and its entry i is true exactly when row
\* start + i satisfies every criterion (all true for an empty selection).
MaskCorrect ==
    /\ (pc = "h5py" /\ WellFormedH5(infile, selection_config)) =>
          /\ err = NoErr
          /\ Len(mask) = end - start
          /\ \A i \in 1..(end - start) :
                mask[i] = RowPassesH5(infile, selection_config, start + i)
    /\ (pc = "table" /\ WellFormedTable(in_[1], selection_config)) =>
          /\ err = NoErr
          /\ Len(mask) = end - start
          /\ \A i \in 1..(end - start) :
                mask[i] = RowPassesTable(in_[1], selection_config, start + i)
MaskCorrectWitness ==
    /\ pc \in {"h5py", "table"}
    /\ WellFormedH5(infile, selection_config)
    /\ Len(NormaliseLegacy(selection_config)) >= 2
    /\ start > 0
    /\ \E i \in 1..Len(mask) : mask[i]
    /\ \E i \in 1..Len(mask) : ~mask[i]

\* =============================== one call of apply_cuts_h5py_chunked alone
H5CallNext == H5Open \/ H5Chunk \/ H5Close

SpecH5Call == H5Init /\ [][H5CallNext]_vars

\* the rows of column c among input rows [0, e) that satisfy the selection,
\* in their original order
PassingRowsUpTo(table, sel, c, e) ==
    Compress(Slice(table[c].data, 0, e),
             [r \in 1..e |-> RowPassesH5(table, sel, r)])

IsPrefix(old, new) ==
    /\ Len(old) <= Len(new)
    /\ \A k \in 1..Len(old) : new[k] = old[k]

\* after chunk number chunk - 1, the range [start, end), has been processed
GrowthState ==
    (pc = "loop" /\ chunk >= 1) =>
       /\ start = (chunk - 1) * chunksize
       /\ end = Min(n_events, chunk * chunksize)
       /\ DOMAIN outfile.group = SupportedCols(infile)
       /\ \A c \in DOMAIN outfile.group :
             outfile.group[c].data = PassingRowsUpTo(infile, selection_config, c, end)
       /\ \A c, d \in DOMAIN outfile.group :
             Len(outfile.group[c].data) = Len(outfile.group[d].data)

\* a step that processes one chunk, and any step at all
GrowthStep ==
    /\ (pc = "loop" /\ pc' = "loop" /\ chunk' = chunk + 1) =>
          /\ chunk >= 1 => (start' = end /\ start' > start)
          /\ \A c \in DOMAIN outfile'.group :
                Len(outfile'.group[c].data) =
                   (IF c \in DOMAIN outfile.group THEN Len(outfile.group[c].data) ELSE 0)
                   + count_nonzero(mask')
    /\ \A c \in DOMAIN outfile.group :
          /\ c \in DOMAIN outfile'.group
          /\ IsPrefix(outfile.group[c].data, outfile'.group[c].data)

\* C11: chunks are processed in strictly increasing start offset; after the
\* chunk [start, end) has been processed every output column holds exactly
\* the passing rows of input rows [0, end) in their original order; each
\* chunk grows every output column by its number of passing rows, all output
\* columns have the same length, and rows written earlier never change.
AppendOnlyGrowth == []GrowthState /\ [][GrowthStep]_vars
AppendOnlyGrowthWitness ==
    /\ pc = "loop"
    /\ chunk >= 2
    /\ {"img", "x"} \subseteq DOMAIN outfile.group
    /\ count_nonzero(mask) >= 1
    /\ Len(outfile.group["x"].data) >= 2
    /\ Len(outfile.group["x"].data) < end
====
